---------------------------- MODULE Spec2Model ----------------------------
(***************************************************************************)
(* DemirAI v2 (src/main.py): the SQL safety validator, the query executor  *)
(* and the /ask pipeline.                                                  *)
(*                                                                         *)
(* A SQL string is a sequence of tokens.  A token is either one whitespace *)
(* character, one punctuation character, or a maximal run of word          *)
(* characters (letters, digits, underscore), so a regex word boundary \b   *)
(* lies exactly between a word token and a neighbour that is not one (or   *)
(* the end of the string).  No two word tokens are adjacent in an input.   *)
(***************************************************************************)
EXTENDS Integers, Sequences, FiniteSets, TLC

\* MAX_ROWS = int(os.getenv("MAX_ROWS", "2000"))
MAX_ROWS == 2000

\* Bounds of the model.
MaxClauses == 3
NumReqs == 2

-----------------------------------------------------------------------------
(* Characters and tokens *)

SpaceToks == {" ", "\n", "\t", "\r"}
PunctToks == {";", ".", "*"}
DigitToks == {"10", "2000", "3000"}

IsSpace(t) == t \in SpaceToks
IsWord(t) == t \notin SpaceToks /\ t \notin PunctToks
IsDigits(t) == t \in DigitToks

\* str.lower() on one token
LowerTok(t) ==
    CASE t = "SELECT" -> "select"
      [] t = "WITH" -> "with"
      [] t = "FROM" -> "from"
      [] t = "LIMIT" -> "limit"
      [] t = "Limit" -> "limit"
      [] t = "DROP" -> "drop"
      [] t = "LIMIT2000" -> "limit2000"
      [] OTHER -> t

\* lowered = s.lower()
Lower(s) == [i \in 1..Len(s) |-> LowerTok(s[i])]

\* int(m.group(1))
IntOf(t) ==
    CASE t = "10" -> 10
      [] t = "2000" -> 2000
      [] t = "3000" -> 3000

\* f"{MAX_ROWS}": the decimal digits of n
DecimalOf(n) == CHOOSE t \in DigitToks : IntOf(t) = n

\* \b between positions i and i+1 of s (i = 0: the start, i = Len(s): the end)
Boundary(s, i) ==
    LET l == i >= 1 /\ IsWord(s[i])
        r == i + 1 <= Len(s) /\ IsWord(s[i + 1])
    IN l # r

\* the word token at i is a whole word: \b on both sides
WholeWord(s, i) == IsWord(s[i]) /\ Boundary(s, i - 1) /\ Boundary(s, i)

\* str.strip()
RECURSIVE LStrip(_)
LStrip(s) == IF s # <<>> /\ IsSpace(Head(s)) THEN LStrip(Tail(s)) ELSE s

RECURSIVE RStrip(_)
RStrip(s) ==
    IF s # <<>> /\ IsSpace(s[Len(s)]) THEN RStrip(SubSeq(s, 1, Len(s) - 1)) ELSE s

Strip(s) == RStrip(LStrip(s))

-----------------------------------------------------------------------------
(* validate_sql and its helpers *)

\* BANNED = re.compile(r"\b(insert|...|copy)\b", re.IGNORECASE)
BANNED ==
    {"insert", "update", "delete", "drop", "alter", "create", "truncate",
     "grant", "revoke", "vacuum", "copy"}

\* BANNED compiled without re.IGNORECASE
BannedSearchCaseSensitive(s) ==
    \E i \in 1..Len(s) : s[i] \in BANNED /\ WholeWord(s, i)

\* BANNED.search(s)
BannedSearch(s) ==
    \E i \in 1..Len(s) : LowerTok(s[i]) \in BANNED /\ WholeWord(s, i)

\* re.match(r"^(select|with)\b", s, re.IGNORECASE)
ReadMatch(s) ==
    /\ s # <<>>
    /\ LowerTok(s[1]) \in {"select", "with"}
    /\ Boundary(s, 1)

\* sql.split(";"): the number of segments that are non-empty after strip()
RECURSIVE Parts(_, _)
Parts(s, open) ==
    IF s = <<>> THEN (IF open THEN 1 ELSE 0)
    ELSE IF Head(s) = ";" THEN (IF open THEN 1 ELSE 0) + Parts(Tail(s), FALSE)
    ELSE Parts(Tail(s), open \/ ~IsSpace(Head(s)))

_single_statement(s) == Parts(Strip(s), FALSE) = 1

\* sub in lowered, for the three literal patterns of the schema check
FromAfter(lowered, ws) ==
    \E i \in 1..(Len(lowered) - 2) :
        /\ lowered[i] = ws
        /\ lowered[i + 1] = "from"
        /\ lowered[i + 2] = " "

\* "mart." in lowered
HasMart(lowered) ==
    \E i \in 1..(Len(lowered) - 1) : lowered[i] = "mart" /\ lowered[i + 1] = "."

SchemaViolation(lowered) ==
    /\ FromAfter(lowered, " ") \/ FromAfter(lowered, "\n") \/ FromAfter(lowered, "\t")
    /\ ~HasMart(lowered)

\* re.search(r"\blimit\b", lowered)
LimitWord(lowered) ==
    \E i \in 1..Len(lowered) : lowered[i] = "limit" /\ WholeWord(lowered, i)

\* the number of whitespace tokens of s from position i on
RECURSIVE SpaceRun(_, _)
SpaceRun(s, i) ==
    IF i <= Len(s) /\ IsSpace(s[i]) THEN 1 + SpaceRun(s, i + 1) ELSE 0

\* the length of the match of  \blimit\s+(\d+)\b  (ignoring case) at position
\* i of s, 0 when there is none
ClauseLen(s, i) ==
    LET k == SpaceRun(s, i + 1)
        d == i + 1 + k
    IN IF /\ LowerTok(s[i]) = "limit"
          /\ Boundary(s, i - 1)
          /\ k >= 1
          /\ d <= Len(s)
          /\ IsDigits(s[d])
          /\ Boundary(s, d)
       THEN k + 2
       ELSE 0

\* the integer of the clause at i: int(m.group(1))
ClauseInt(s, i) == IntOf(s[i + ClauseLen(s, i) - 1])

\* the positions where  limit\s+\d+  matches
Clauses(s) == {i \in 1..Len(s) : ClauseLen(s, i) > 0}

Min(S) == CHOOSE x \in S : \A y \in S : x <= y

\* f"LIMIT{MAX_ROWS}": the blank left out of the replacement
LimitReplacementNoBlank == <<"LIMIT2000">>

\* f"LIMIT {MAX_ROWS}"
LimitReplacement == <<"LIMIT", " ", DecimalOf(MAX_ROWS)>>

\* re.sub(r"(?i)\blimit\s+\d+\b", f"LIMIT {MAX_ROWS}", s): every match, left
\* to right, is replaced
RECURSIVE SubAll(_, _)
SubAll(s, i) ==
    IF i > Len(s) THEN <<>>
    ELSE IF ClauseLen(s, i) > 0
         THEN LimitReplacement \o SubAll(s, i + ClauseLen(s, i))
         ELSE <<s[i]>> \o SubAll(s, i + 1)

\* re.sub(..., count=1): only the first match is replaced
LimitSubFirst(s) ==
    IF Clauses(s) = {} THEN s
    ELSE LET i == Min(Clauses(s))
         IN SubSeq(s, 1, i - 1) \o LimitReplacement
                \o SubSeq(s, i + ClauseLen(s, i), Len(s))

LimitSub(s) == SubAll(s, 1)

\* lines 197-201: m = re.search(...); if m and int(m.group(1)) > MAX_ROWS
NeedsClamp(lowered) ==
    /\ Clauses(lowered) # {}
    /\ ClauseInt(lowered, Min(Clauses(lowered))) > MAX_ROWS

Reject(e) == [ok |-> FALSE, err |-> e, sql |-> <<>>]
Accept(s) == [ok |-> TRUE, err |-> "", sql |-> s]

\* An input value: a string (type "str", its tokens) or another JSON value
\* with its truthiness.
Truthy(v) == IF v.type = "str" THEN v.toks # <<>> ELSE v.truthy

\* validate_sql with the statement count checked before the banned keywords
validate_sql_reordered(v) ==
    IF ~Truthy(v) \/ v.type # "str" THEN Reject("EmptyOutput")
    ELSE LET s == Strip(v.toks)
             lowered == Lower(s)
         IN IF ~ReadMatch(s) THEN Reject("NotAReadQuery")
            ELSE IF ~_single_statement(s) THEN Reject("MultipleStatements")
            ELSE IF BannedSearch(s) THEN Reject("ForbiddenKeyword")
            ELSE IF SchemaViolation(lowered) THEN Reject("SchemaNotAllowed")
            ELSE IF ~LimitWord(lowered) THEN Reject("LimitRequired")
            ELSE IF NeedsClamp(lowered) THEN Accept(LimitSub(s))
            ELSE Accept(s)

validate_sql(v) ==
    IF ~Truthy(v) \/ v.type # "str" THEN Reject("EmptyOutput")
    ELSE LET s == Strip(v.toks)
             lowered == Lower(s)
         IN IF ~ReadMatch(s) THEN Reject("NotAReadQuery")
            ELSE IF BannedSearch(s) THEN Reject("ForbiddenKeyword")
            ELSE IF ~_single_statement(s) THEN Reject("MultipleStatements")
            ELSE IF SchemaViolation(lowered) THEN Reject("SchemaNotAllowed")
            ELSE IF ~LimitWord(lowered) THEN Reject("LimitRequired")
            ELSE IF NeedsClamp(lowered) THEN Accept(LimitSub(s))
            ELSE Accept(s)

Str(toks) == [type |-> "str", toks |-> toks, truthy |-> toks # <<>>]

-----------------------------------------------------------------------------
(* The inputs of the validator: a head followed by at most MaxClauses clauses *)

Heads ==
    { <<"select">>, <<" ", "WITH">>, <<"selectx">>, <<"drop">>, <<>> }

ClauseForms ==
    { <<" ", "dropx">>,
      <<" ", "from", " ", "mart", ".", "t">>,
      <<" ", "FROM", " ", "raw", ".", "t">>,
      <<"\t", "from", " ", "raw", ".", "t">>,
      <<"\n", "from", "\n", "raw", ".", "t">>,
      <<" ", "limit", " ", "10">>,
      <<" ", "Limit", " ", "2000">>,
      <<" ", "LIMIT", "\n", "3000">>,
      <<" ", "limit">>,
      <<" ", "DROP">>,
      <<";">>,
      <<" ">> }

\* the concatenations of at most n clauses
RECURSIVE Bodies(_)
Bodies(n) ==
    IF n = 0 THEN {<<>>}
    ELSE LET B == Bodies(n - 1)
         IN B \cup {b \o c : b \in B, c \in ClauseForms}

SqlStrings == {h \o b : h \in Heads, b \in Bodies(MaxClauses)}

\* what sql_obj.get("sql") can be besides a string: None, a number, a list
NonStrings ==
    { [type |-> "null", toks |-> <<>>, truthy |-> FALSE],
      [type |-> "int", toks |-> <<>>, truthy |-> FALSE],
      [type |-> "int", toks |-> <<>>, truthy |-> TRUE],
      [type |-> "list", toks |-> <<>>, truthy |-> TRUE] }

Inputs == {Str(s) : s \in SqlStrings} \cup NonStrings

-----------------------------------------------------------------------------
(* State *)

VARIABLES
    input,        \* the argument of validate_sql
    phase,        \* "input", "validated", "revalidated" ("off" in the pipeline)
    result,       \* validate_sql(input)
    again,        \* validate_sql of the accepted result
    pc,           \* each request's position in ask()
    sqlObj,       \* what the first bridge call returned
    sql,          \* ask's local sql after validate_sql
    executed,     \* the statements handed to cur.execute, per request
    trace,        \* the pipeline steps each request ran, in order
    response,     \* what the caller of /ask receives
    raised,       \* the exception that reached ask's except clauses
    fault,        \* the class of the failure that raised it
    bridgeCalls,  \* calls of ollama_json per request
    opened,       \* database sessions each request opened
    openSessions  \* database sessions open now

valVars == <<input, phase, result, again>>
askVars ==
    <<pc, sqlObj, sql, executed, trace, response, raised, fault, bridgeCalls,
      opened, openSessions>>
vars == <<valVars, askVars>>

Reqs == 1..NumReqs

Null == [type |-> "null", toks |-> <<>>, truthy |-> FALSE]
NoResult == [ok |-> FALSE, err |-> "none", sql |-> <<>>]
NoObj == [got |-> FALSE, isDict |-> FALSE, hasSql |-> FALSE, sql |-> Null]
NoResponse == [status |-> 0, msg |-> ""]
NoException == [kind |-> "none", status |-> 0, msg |-> ""]

AskIdle ==
    /\ pc = [r \in Reqs |-> "start"]
    /\ sqlObj = [r \in Reqs |-> NoObj]
    /\ sql = [r \in Reqs |-> <<>>]
    /\ executed = [r \in Reqs |-> <<>>]
    /\ trace = [r \in Reqs |-> <<>>]
    /\ response = [r \in Reqs |-> NoResponse]
    /\ raised = [r \in Reqs |-> NoException]
    /\ fault = [r \in Reqs |-> "none"]
    /\ bridgeCalls = [r \in Reqs |-> 0]
    /\ opened = [r \in Reqs |-> 0]
    /\ openSessions = 0

-----------------------------------------------------------------------------
(* The validator as a function of its input *)

InitValidate ==
    /\ input \in Inputs
    /\ phase = "input"
    /\ result = NoResult
    /\ again = NoResult
    /\ AskIdle

Validate ==
    /\ phase = "input"
    /\ result' = validate_sql(input)
    /\ phase' = "validated"
    /\ UNCHANGED <<input, again, askVars>>

Revalidate ==
    /\ phase = "validated"
    /\ result.ok
    /\ again' = validate_sql(Str(result.sql))
    /\ phase' = "revalidated"
    /\ UNCHANGED <<input, result, askVars>>

NextValidate == Validate \/ Revalidate

SpecValidate == InitValidate /\ [][NextValidate]_vars

-----------------------------------------------------------------------------
(* Properties of validate_sql *)

Validated == phase # "input" /\ phase # "off"
Accepted == Validated /\ result.ok
Trimmed == Strip(input.toks)

\* the six checks of the validator, each on its own
Fails(k, v) ==
    CASE k = 1 -> ~Truthy(v) \/ v.type # "str"
      [] k = 2 -> v.type = "str" /\ ~ReadMatch(Strip(v.toks))
      [] k = 3 -> v.type = "str" /\ BannedSearch(Strip(v.toks))
      [] k = 4 -> v.type = "str" /\ ~_single_statement(Strip(v.toks))
      [] k = 5 -> v.type = "str" /\ SchemaViolation(Lower(Strip(v.toks)))
      [] k = 6 -> v.type = "str" /\ ~LimitWord(Lower(Strip(v.toks)))

FailedChecks(v) == {k \in 1..6 : Fails(k, v)}

CheckError(k) ==
    CASE k = 1 -> "EmptyOutput"
      [] k = 2 -> "NotAReadQuery"
      [] k = 3 -> "ForbiddenKeyword"
      [] k = 4 -> "MultipleStatements"
      [] k = 5 -> "SchemaNotAllowed"
      [] k = 6 -> "LimitRequired"

\* C1: the error of a rejected input is the error of the earliest of the six
\* checks (non-empty string, SELECT/WITH, banned keyword, one statement,
\* schema, LIMIT) that the input fails, and an input failing none is accepted.
C1_FirstFailureWins ==
    Validated =>
        LET F == FailedChecks(input)
        IN IF F = {} THEN result.ok
           ELSE ~result.ok /\ result.err = CheckError(Min(F))

\* an input with a banned keyword and two statements is rejected for the keyword
C1_Witness ==
    /\ phase = "validated"
    /\ {3, 4} \subseteq FailedChecks(input)
    /\ 2 \notin FailedChecks(input)
    /\ result.err = "ForbiddenKeyword"

\* the integers of the LIMIT clauses of s
LimitInts(s) == {ClauseInt(s, i) : i \in Clauses(s)}

\* C2: every accepted result starts with SELECT or WITH, is one statement and
\* has no LIMIT <integer> clause above MAX_ROWS.
C2_AcceptedIsCapped ==
    Accepted =>
        /\ ReadMatch(result.sql)
        /\ _single_statement(result.sql)
        /\ \A n \in LimitInts(result.sql) : n <= MAX_ROWS

FirstClauseExceeds(s) ==
    Clauses(s) # {} /\ ClauseInt(s, Min(Clauses(s))) > MAX_ROWS

\* s with the clause at i alone replaced by LIMIT MAX_ROWS
ReplaceClauseAt(s, i) ==
    SubSeq(s, 1, i - 1) \o <<"LIMIT", " ", "2000">>
        \o SubSeq(s, i + ClauseLen(s, i), Len(s))

\* s with each LIMIT <integer> clause collapsed into one mark
RECURSIVE Skeleton(_, _)
Skeleton(s, i) ==
    IF i > Len(s) THEN <<>>
    ELSE IF i \in Clauses(s)
         THEN <<"<limit clause>">> \o Skeleton(s, i + ClauseLen(s, i))
         ELSE <<s[i]>> \o Skeleton(s, i + 1)

\* C3 as claimed: when the LIMIT <integer> clause found exceeds MAX_ROWS only
\* that first clause is rewritten to LIMIT MAX_ROWS and every other character,
\* later LIMIT clauses included, is unchanged; otherwise the trimmed SQL is
\* returned unchanged.
C3_OnlyFirstRewritten ==
    Accepted =>
        result.sql = IF FirstClauseExceeds(Trimmed)
                     THEN ReplaceClauseAt(Trimmed, Min(Clauses(Trimmed)))
                     ELSE Trimmed

\* C3 amended: when the first LIMIT <integer> clause exceeds MAX_ROWS every
\* LIMIT <integer> clause of the SQL, whatever its integer, is rewritten to
\* LIMIT MAX_ROWS and every other character is unchanged; when it does not
\* (or there is none) the trimmed SQL is returned unchanged.
C3_EveryClauseRewritten ==
    Accepted =>
        IF FirstClauseExceeds(Trimmed)
        THEN /\ Skeleton(result.sql, 1) = Skeleton(Trimmed, 1)
             /\ \A i \in Clauses(result.sql) :
                    SubSeq(result.sql, i, i + 2) = <<"LIMIT", " ", "2000">>
        ELSE result.sql = Trimmed

\* an accepted query whose first LIMIT exceeds the cap and whose later LIMIT
\* does not: both clauses read LIMIT 2000 in the result
C3_Witness ==
    /\ phase = "validated"
    /\ result.ok
    /\ FirstClauseExceeds(Trimmed)
    /\ \E i \in Clauses(Trimmed) : ClauseInt(Trimmed, i) < MAX_ROWS
    /\ LimitInts(result.sql) = {MAX_ROWS}
    /\ Cardinality(Clauses(result.sql)) = Cardinality(Clauses(Trimmed))

\* toks has a banned keyword, in any case, as a whole word
HasBannedWord(toks) ==
    \E i \in 1..Len(toks) :
        /\ \E b \in BANNED : LowerTok(toks[i]) = b
        /\ (i = 1 \/ ~IsWord(toks[i - 1]))
        /\ (i = Len(toks) \/ ~IsWord(toks[i + 1]))

\* C4 as claimed: every string with a banned keyword as a whole word is
\* rejected with ForbiddenKeyword.
C4_BannedIsForbidden ==
    (Validated /\ input.type = "str" /\ HasBannedWord(input.toks)) =>
        ~result.ok /\ result.err = "ForbiddenKeyword"

\* C4 amended: every string with a banned keyword as a whole word is rejected,
\* with ForbiddenKeyword when the trimmed string starts with SELECT or WITH
\* and with NotAReadQuery when it does not.
C4_BannedIsRejected ==
    (Validated /\ input.type = "str" /\ HasBannedWord(input.toks)) =>
        /\ ~result.ok
        /\ result.err = IF LowerTok(Head(Trimmed)) \in {"select", "with"}
                        THEN "ForbiddenKeyword"
                        ELSE "NotAReadQuery"

\* a SELECT with an upper-case DROP in it is rejected for the keyword
C4_Witness ==
    /\ phase = "validated"
    /\ \E i \in 1..Len(input.toks) : input.toks[i] = "DROP"
    /\ LowerTok(Head(Trimmed)) = "select"
    /\ result.err = "ForbiddenKeyword"

\* the token from, preceded by the start of the text or by whitespace
HasFromToken(lowered) ==
    \E i \in 1..Len(lowered) :
        lowered[i] = "from" /\ (i = 1 \/ IsSpace(lowered[i - 1]))

\* C5: a string that passes checks 1-4 and has the token from after the start
\* or after whitespace, whatever follows it, and has no "mart." is rejected
\* with SchemaNotAllowed.
C5_FromNeedsMart ==
    (/\ Validated
     /\ FailedChecks(input) \cap {1, 2, 3, 4} = {}
     /\ HasFromToken(Lower(Trimmed))
     /\ ~HasMart(Lower(Trimmed))) =>
        ~result.ok /\ result.err = "SchemaNotAllowed"

\* C10: validating an accepted result again accepts it and returns it unchanged.
C10_Idempotent ==
    phase = "revalidated" => again.ok /\ again.sql = result.sql

\* a result that the LIMIT rewrite changed was validated again
C10_Witness ==
    /\ phase = "revalidated"
    /\ result.sql # Trimmed
    /\ again = result

-----------------------------------------------------------------------------
(* The /ask pipeline *)

HTTPException(status, msg) == [kind |-> "HTTPException", status |-> status, msg |-> msg]
OtherException(kind) == [kind |-> kind, status |-> 0, msg |-> kind]

Returned(value) == [raises |-> FALSE, exc |-> NoException, fault |-> "none", value |-> value]
Raised(exc, class) == [raises |-> TRUE, exc |-> exc, fault |-> class, value |-> NoObj]

\* What the endpoint answers to client.post: no answer within the timeout (or
\* a transport failure), a status, a body, and in the body the model's text.
Reply(kind, value) == [kind |-> kind, value |-> value]

\* the JSON values the model's text can parse to
Obj(isDict, hasSql, v) == [got |-> TRUE, isDict |-> isDict, hasSql |-> hasSql, sql |-> v]

\* the strings the model answers as "sql"
ModelSqls ==
    { <<>>,
      <<"drop", " ", "t">>,
      <<"select", " ", "from", " ", "raw", ".", "t", " ", "limit", " ", "10">>,
      <<" ", "select", " ", "from", " ", "mart", ".", "t", " ", "limit", " ", "10">>,
      <<"select", " ", "from", " ", "mart", ".", "t", " ", "LIMIT", " ", "3000">> }

SqlObjects ==
    {Obj(FALSE, FALSE, Null), Obj(TRUE, FALSE, Null)}
        \cup {Obj(TRUE, TRUE, v) : v \in NonStrings \cup {Str(s) : s \in ModelSqls}}

InsightObjects == {Obj(FALSE, FALSE, Null), Obj(TRUE, FALSE, Null)}

Failures ==
    { Reply("timeout", NoObj), Reply("status", NoObj), Reply("body", NoObj),
      Reply("unparseable", NoObj) }

SqlReplies == Failures \cup {Reply("json", o) : o \in SqlObjects}
InsightReplies == Failures \cup {Reply("json", o) : o \in InsightObjects}

\* ollama_json: client.post raises on a timeout or a transport failure, a
\* status other than 200 raises 502, r.json() raises on a body that is no
\* JSON, json.loads of the extracted text raises 502 when it fails.
ollama_json(reply) ==
    CASE reply.kind = "timeout" ->
            Raised(OtherException("httpx.TransportError"), "endpoint_transport")
      [] reply.kind = "status" ->
            Raised(HTTPException(502, "ModelEndpointError"), "endpoint_status")
      [] reply.kind = "body" ->
            Raised(OtherException("JSONDecodeError"), "endpoint_body")
      [] reply.kind = "unparseable" ->
            Raised(HTTPException(502, "ModelOutputUnparseable"), "model_output")
      [] reply.kind = "json" -> Returned(reply.value)

\* sql_obj.get("sql")
GetSql(obj) == IF obj.hasSql THEN obj.sql ELSE Null

SqlOk(s) == [raises |-> FALSE, exc |-> NoException, fault |-> "none", sql |-> s, validated |-> TRUE]
SqlRaise(exc, class, validated) ==
    [raises |-> TRUE, exc |-> exc, fault |-> class, sql |-> <<>>, validated |-> validated]

\* lines 320-324 without the call of validate_sql
SqlStepUnvalidated(obj) ==
    IF ~obj.isDict THEN SqlRaise(OtherException("AttributeError"), "shape", FALSE)
    ELSE IF ~Truthy(GetSql(obj))
         THEN SqlRaise(HTTPException(400, "NoSqlProduced"), "no_sql", FALSE)
         ELSE SqlOk(GetSql(obj).toks)

\* lines 320-324: sql = sql_obj.get("sql"); if not sql: raise 400;
\* sql = validate_sql(sql)
SqlStep(obj) ==
    IF ~obj.isDict THEN SqlRaise(OtherException("AttributeError"), "shape", FALSE)
    ELSE IF ~Truthy(GetSql(obj))
         THEN SqlRaise(HTTPException(400, "NoSqlProduced"), "no_sql", FALSE)
         ELSE LET v == validate_sql(GetSql(obj))
              IN IF v.ok THEN SqlOk(v.sql)
                 ELSE SqlRaise(HTTPException(400, v.err), "validator", TRUE)

\* except Exception alone: every exception is wrapped
AskHandlerWrapAll(exc) == [status |-> 500, msg |-> "Internal error"]

\* lines 374-379: except HTTPException: raise; except Exception: raise 500
AskHandler(exc) ==
    IF exc.kind = "HTTPException" THEN [status |-> exc.status, msg |-> exc.msg]
    ELSE [status |-> 500, msg |-> "Internal error"]

\* lines 327-330: a psycopg.Error of run_query becomes a 400
ExecHandler(exc) ==
    IF exc.kind = "psycopg.Error" THEN HTTPException(400, "ExecutionError") ELSE exc

\* the connection is closed only when the block ends normally
ConnExitOnSuccessOnly(n, raising) == IF raising THEN n ELSE n - 1

\* line 265: leaving "with pg_conn() as conn" closes the connection, whether
\* the block raised or not
ConnExit(n, raising) == n - 1

\* the event loop runs one request's synchronous code at a time: run_query and
\* what follows it up to the next await do not interleave with other requests
RunQueryPcs == {"connect", "execute", "fetch", "describe"}
SyncPcs == RunQueryPcs \cup {"summarize"}
LoopFree(r) == \A q \in Reqs \ {r} : pc[q] \notin SyncPcs

Fail(r, exc, class) ==
    /\ pc' = [pc EXCEPT ![r] = "done"]
    /\ raised' = [raised EXCEPT ![r] = exc]
    /\ fault' = [fault EXCEPT ![r] = class]
    /\ response' = [response EXCEPT ![r] = AskHandler(exc)]

InitAsk ==
    /\ input = Null
    /\ phase = "off"
    /\ result = NoResult
    /\ again = NoResult
    /\ AskIdle

\* line 316: the first call of ollama_json is awaited
AskSql(r) ==
    /\ pc[r] = "start"
    /\ LoopFree(r)
    /\ pc' = [pc EXCEPT ![r] = "await_sql"]
    /\ trace' = [trace EXCEPT ![r] = Append(@, "bridge_sql")]
    /\ bridgeCalls' = [bridgeCalls EXCEPT ![r] = @ + 1]
    /\ UNCHANGED <<sqlObj, sql, executed, response, raised, fault, opened, openSessions, valVars>>

\* lines 316-328: the call returns or raises; sql is taken and validated and
\* run_query is called
SqlReply(r) ==
    /\ pc[r] = "await_sql"
    /\ LoopFree(r)
    /\ \E reply \in SqlReplies :
        LET out == ollama_json(reply)
        IN IF out.raises
           THEN /\ Fail(r, out.exc, out.fault)
                /\ UNCHANGED <<sqlObj, sql, trace>>
           ELSE LET step == SqlStep(out.value)
                    ran == IF step.validated THEN Append(trace[r], "validate") ELSE trace[r]
                IN /\ sqlObj' = [sqlObj EXCEPT ![r] = out.value]
                   /\ IF step.raises
                      THEN /\ Fail(r, step.exc, step.fault)
                           /\ trace' = [trace EXCEPT ![r] = ran]
                           /\ UNCHANGED sql
                      ELSE /\ sql' = [sql EXCEPT ![r] = step.sql]
                           /\ pc' = [pc EXCEPT ![r] = "connect"]
                           /\ trace' = [trace EXCEPT ![r] = Append(ran, "execute")]
                           /\ UNCHANGED <<response, raised, fault>>
    /\ UNCHANGED <<executed, bridgeCalls, opened, openSessions, valVars>>

\* line 265: pg_conn() connects or raises psycopg.OperationalError
Connect(r) ==
    /\ pc[r] = "connect"
    /\ \/ /\ pc' = [pc EXCEPT ![r] = "execute"]
          /\ opened' = [opened EXCEPT ![r] = @ + 1]
          /\ openSessions' = openSessions + 1
          /\ UNCHANGED <<response, raised, fault>>
       \/ /\ Fail(r, ExecHandler(OtherException("psycopg.Error")), "db_error")
          /\ UNCHANGED <<opened, openSessions>>
    /\ UNCHANGED <<sqlObj, sql, executed, trace, bridgeCalls, valVars>>

\* a statement of the with block raises: the block is left, the connection
\* exits, and ask's handlers see the exception
BlockRaises(r, kind, class) ==
    /\ openSessions' = ConnExit(openSessions, TRUE)
    /\ Fail(r, ExecHandler(OtherException(kind)), class)

\* line 267: cur.execute(sql)
Execute(r) ==
    /\ pc[r] = "execute"
    /\ executed' = [executed EXCEPT ![r] = Append(@, sql[r])]
    /\ \/ /\ pc' = [pc EXCEPT ![r] = "fetch"]
          /\ UNCHANGED <<response, raised, fault, openSessions>>
       \/ BlockRaises(r, "psycopg.Error", "db_error")
       \/ BlockRaises(r, "RuntimeError", "internal")
    /\ UNCHANGED <<sqlObj, sql, trace, bridgeCalls, opened, valVars>>

\* line 268: cur.fetchmany(50)
Fetch(r) ==
    /\ pc[r] = "fetch"
    /\ \/ /\ pc' = [pc EXCEPT ![r] = "describe"]
          /\ UNCHANGED <<response, raised, fault, openSessions>>
       \/ BlockRaises(r, "psycopg.Error", "db_error")
       \/ BlockRaises(r, "RuntimeError", "internal")
    /\ UNCHANGED <<sqlObj, sql, executed, trace, bridgeCalls, opened, valVars>>

\* lines 269-272: the column names are read, the block ends, run_query returns
Describe(r) ==
    /\ pc[r] = "describe"
    /\ \/ /\ pc' = [pc EXCEPT ![r] = "summarize"]
          /\ openSessions' = ConnExit(openSessions, FALSE)
          /\ trace' = [trace EXCEPT ![r] = Append(@, "summarize")]
          /\ UNCHANGED <<response, raised, fault>>
       \/ /\ BlockRaises(r, "psycopg.Error", "db_error")
          /\ UNCHANGED trace
       \/ /\ BlockRaises(r, "RuntimeError", "internal")
          /\ UNCHANGED trace
    /\ UNCHANGED <<sqlObj, sql, executed, bridgeCalls, opened, valVars>>

\* lines 332-355: the statistics, the payload (json.dumps raises on a value it
\* cannot serialize: a 500), and the second call of ollama_json is awaited
Summarize(r) ==
    /\ pc[r] = "summarize"
    /\ \/ /\ pc' = [pc EXCEPT ![r] = "await_insight"]
          /\ trace' = [trace EXCEPT ![r] = Append(@, "bridge_insight")]
          /\ bridgeCalls' = [bridgeCalls EXCEPT ![r] = @ + 1]
          /\ UNCHANGED <<response, raised, fault>>
       \/ /\ Fail(r, HTTPException(500, "JSON serialization"), "serialization")
          /\ UNCHANGED <<trace, bridgeCalls>>
    /\ UNCHANGED <<sqlObj, sql, executed, opened, openSessions, valVars>>

\* lines 352-373: the second call returns or raises; the response is built
InsightReply(r) ==
    /\ pc[r] = "await_insight"
    /\ LoopFree(r)
    /\ \E reply \in InsightReplies :
        LET out == ollama_json(reply)
        IN IF out.raises
           THEN /\ Fail(r, out.exc, out.fault)
                /\ UNCHANGED trace
           ELSE IF ~out.value.isDict
           THEN /\ Fail(r, OtherException("AttributeError"), "shape")
                /\ UNCHANGED trace
           ELSE /\ pc' = [pc EXCEPT ![r] = "done"]
                /\ response' = [response EXCEPT ![r] = [status |-> 200, msg |-> "AskResponse"]]
                /\ trace' = [trace EXCEPT ![r] = Append(@, "respond")]
                /\ UNCHANGED <<raised, fault>>
    /\ UNCHANGED <<sqlObj, sql, executed, bridgeCalls, opened, openSessions, valVars>>

NextAsk ==
    \E r \in Reqs :
        \/ AskSql(r)
        \/ SqlReply(r)
        \/ Connect(r)
        \/ Execute(r)
        \/ Fetch(r)
        \/ Describe(r)
        \/ Summarize(r)
        \/ InsightReply(r)

Spec == InitAsk /\ [][NextAsk]_vars

-----------------------------------------------------------------------------
(* Properties of the pipeline *)

Done(r) == pc[r] = "done"
Failed(r) == Done(r) /\ response[r].status # 200

\* C6: the database is reached only after the first bridge call returned a
\* non-empty sql that validate_sql accepted, the statement executed is the
\* string validate_sql returned, and a request whose sql is missing, empty or
\* rejected ends with status 400 without a session having been opened.
C6_ValidatedBeforeDatabase ==
    \A r \in Reqs :
        LET given == GetSql(sqlObj[r])
            v == validate_sql(given)
        IN /\ (pc[r] \in RunQueryPcs \/ opened[r] > 0 \/ executed[r] # <<>>) =>
                  /\ sqlObj[r].got /\ sqlObj[r].isDict
                  /\ Truthy(given)
                  /\ v.ok
           /\ \A i \in 1..Len(executed[r]) : executed[r][i] = v.sql
           /\ (Done(r) /\ sqlObj[r].got /\ sqlObj[r].isDict /\ (~Truthy(given) \/ ~v.ok)) =>
                  /\ response[r].status = 400
                  /\ opened[r] = 0
                  /\ executed[r] = <<>>

\* a request executed a statement that validate_sql had rewritten
C6_Witness ==
    \E r \in Reqs :
        /\ Len(executed[r]) = 1
        /\ opened[r] = 1
        /\ executed[r][1] # GetSql(sqlObj[r]).toks
        /\ \E i \in 1..Len(executed[r][1]) : executed[r][1][i] = "2000"

\* C7: a failed request has status 400 when the validator, a missing sql or
\* the database failed it, 502 when the endpoint answered another status than
\* 200, the model's output did not parse, or the endpoint request timed out
\* or failed in transport, and 500 only for a fault that is none of these.
C7_FailureClasses ==
    \A r \in Reqs :
        Failed(r) =>
            /\ fault[r] \in {"validator", "no_sql", "db_error"} =>
                   response[r].status = 400
            /\ fault[r] \in {"endpoint_status", "model_output", "endpoint_transport"} =>
                   response[r].status = 502
            /\ response[r].status = 500 =>
                   fault[r] \in {"internal", "serialization", "shape", "endpoint_body"}

\* C8: no database session is open unless a run_query call is inside its with
\* block, and then only the session of that call.
C8_SessionsReleased ==
    /\ (\A r \in Reqs : pc[r] \notin RunQueryPcs) => openSessions = 0
    /\ openSessions = Cardinality({r \in Reqs : pc[r] \in {"execute", "fetch", "describe"}})

\* a request whose run_query raised an unexpected fault after connecting has
\* ended, and so has one whose run_query returned, and no session is open
C8_Witness ==
    /\ openSessions = 0
    /\ \E r \in Reqs : Done(r) /\ opened[r] = 1 /\ fault[r] = "internal"
    /\ \E r \in Reqs : Done(r) /\ opened[r] = 1 /\ response[r].status = 200

Steps == <<"bridge_sql", "validate", "execute", "summarize", "bridge_insight", "respond">>

IsPrefix(s, t) == Len(s) <= Len(t) /\ s = SubSeq(t, 1, Len(s))

Count(s, x) == Cardinality({i \in 1..Len(s) : s[i] = x})

\* the step in which a failure of each class arises
StepOfFault(class, calls) ==
    CASE class = "validator" -> "validate"
      [] class \in {"db_error", "internal"} -> "execute"
      [] class = "serialization" -> "summarize"
      [] OTHER -> IF calls = 1 THEN "bridge_sql" ELSE "bridge_insight"

\* C9: the steps of a request run in the order bridge(SQL), validate,
\* execute, summarize, bridge(insight), respond, each at most once; there are
\* at most two bridge calls and one execution; a failed request ran no step
\* after the one that failed; an HTTPException reaches the caller with its
\* status and message; a success response needs every step.
C9_LinearPipeline ==
    \A r \in Reqs :
        /\ IsPrefix(trace[r], Steps)
        /\ bridgeCalls[r] = Count(trace[r], "bridge_sql") + Count(trace[r], "bridge_insight")
        /\ bridgeCalls[r] <= 2
        /\ Len(executed[r]) <= 1
        /\ executed[r] # <<>> => Count(trace[r], "execute") = 1
        /\ response[r].status = 200 <=> trace[r] = Steps
        /\ response[r] # NoResponse <=> Done(r)
        /\ Failed(r) =>
               /\ raised[r] # NoException
               /\ trace[r][Len(trace[r])] = StepOfFault(fault[r], bridgeCalls[r])
               /\ raised[r].kind = "HTTPException" =>
                      response[r] = [status |-> raised[r].status, msg |-> raised[r].msg]

\* a database error ended a request after execute, with the 400 it was
\* classified as, before any summary or second bridge call
C9_Witness ==
    \E r \in Reqs :
        /\ Failed(r)
        /\ fault[r] = "db_error"
        /\ Len(executed[r]) = 1
        /\ trace[r] = <<"bridge_sql", "validate", "execute">>
        /\ bridgeCalls[r] = 1
        /\ response[r] = [status |-> 400, msg |-> "ExecutionError"]

=============================================================================
